---------------------------- MODULE Spec2Model ----------------------------
(***************************************************************************)
(* A model of the tuix window layer: Window (src/window.go), Desktop       *)
(* (src/unnamed/part_000, src/desktop.go) and the default window manager   *)
(* (src/wmgr.go, src/unnamed/part_001).                                    *)
(*                                                                         *)
(* Every method of the program is an operator that maps a program state S  *)
(* (a record of the windows, the desktops, the focus holder and the log of *)
(* the call in progress) to the program state after the call; an action of *)
(* the model is one call made by the application.                          *)
(***************************************************************************)
EXTENDS Integers, Sequences, FiniteSets, TLC

VARIABLES
    win,    \* win[w]: the fields of Window w (src/window.go:15-31)
    desk,   \* desk[d]: the fields of Desktop d (src/unnamed/part_000:15-23)
    focus,  \* the window that holds the input focus (itself or its client), or None
    log,    \* what the last call did: the call, the SetRect calls and manager hooks
            \* it reached, the windows it offered an event to, and what it returned
    calls   \* the number of calls made so far, where a specification bounds it

vars == <<win, desk, focus, log, calls>>

---------------------------------------------------------------------------
(* Bounds of the model.                                                    *)

NumWindows == 3
NumDesktops == 2
MaxCoord == 2
MaxCalls == 4
MaxEvents == 2
NumManagers == 2
MaxRun == 256
MaxTimeMs == 1000

Windows == 1..NumWindows
Desktops == 1..NumDesktops
None == 0
Managers == 1..NumManagers

---------------------------------------------------------------------------
(* Program constants.                                                      *)

Restored == 0
Minimized == 1
Maximized == 2
States == {Restored, Minimized, Maximized}

\* var DefaultWindowManager = defWinMgr: the manager of a new desktop.
DefaultWindowManager == 1

MinBorderWidth == 12
MinBorderHeight == 2

\* clickCount and dclickDelay20ms are bytes; the double-click delay is kept
\* in units of 20 ms, 500 ms in a new desktop and 255 units at most.
ByteRange == 256
DelayUnitMs == 20
DefaultDelayMs == 500
MaxDelayUnits == 255

\* atY<<16 in the key of a click position.
PosShift == 65536

---------------------------------------------------------------------------
(* Construction.                                                           *)

\* NewWindow: a tview box (0,0,15,10), a zero restored rectangle, state
\* Restored, auto-activate on, everything else off.  rset is not a field of
\* the program: it records that SetRect has set a rectangle while the state
\* was Restored, so that the restored rectangle is one the caller has set.
\* rlate is not a field either: it records that the restored rectangle is
\* one that SetRestoredRect has stored while the state was not Restored.
\* inits and painted are not fields either: inits is the number of InitWindow
\* runs and painted says whether the desktop has drawn the window, both
\* since AddWindow last put the window in a stack.
\* hasFocus is the focus flag of the window's box, or of its client when it
\* has one, as Window.Focus sets it.  hooks is not a field either: hooks[m]
\* is the number of Added calls less the number of Removed calls that
\* manager m has received for the window.
NewWindow ==
    [x |-> 0, y |-> 0, width |-> 15, height |-> 10,
     rx |-> 0, ry |-> 0, rw |-> 0, rh |-> 0, rset |-> FALSE, rlate |-> FALSE,
     state |-> Restored, border |-> FALSE, autoActivate |-> TRUE,
     moving |-> FALSE, moveX |-> 0, moveY |-> 0, autoPosition |-> FALSE,
     resizable |-> FALSE, resizing |-> 0, desktop |-> None, client |-> FALSE,
     hasFocus |-> FALSE, hooks |-> [m \in Managers |-> 0],
     inits |-> 0, painted |-> FALSE]

\* NewDesktop: a tview box (0,0,15,10), no windows, the default window
\* manager, not yet drawn, no click seen and a double-click delay of 500 ms;
\* clientFocus is the focus flag of its client.  run, lastX and lastY are
\* not fields of the program: run is the length of the run of clicks at one
\* position, each within the double-click delay of the one before, that the
\* last click ended, and (lastX, lastY) is the position of the last click.
NewDesktop ==
    [wins |-> <<>>, x |-> 0, y |-> 0, width |-> 15, height |-> 10,
     border |-> FALSE, init |-> FALSE, autoWinPos |-> 0, client |-> FALSE,
     clientFocus |-> FALSE, winMgr |-> DefaultWindowManager,
     lastClickTimeMs |-> 0, lastClickPosxy |-> 0, clickCount |-> 0,
     dclickDelay20ms |-> DefaultDelayMs \div DelayUnitMs,
     run |-> 0, lastX |-> 0, lastY |-> 0]

Flag(b) == IF b THEN 1 ELSE 0

\* One entry of the log.
Ev(e, w, a) == [ev |-> e, win |-> w, arg |-> a]

\* The first entry of the log of a mouse event given to desktop d.
MouseCall(d, e) ==
    [ev |-> e.action, win |-> None, arg |-> d,
     x |-> e.x, y |-> e.y, only1 |-> e.only1, clientTakes |-> e.clientTakes]

\* The first entry of the log of a call that is given the rectangle r.
RectCall(e, w, r) ==
    [ev |-> e, win |-> w, arg |-> 0,
     x |-> r[1], y |-> r[2], width |-> r[3], height |-> r[4]]

\* The program state at the start of a call.
Cur(call) ==
    [win |-> win, desk |-> desk, focus |-> focus, log |-> <<call>>,
     consumed |-> FALSE, capture |-> None]

\* The program state after a call becomes the next state of the model; a
\* call that would put a window outside the modelled coordinates is left out.
Becomes(S) ==
    /\ \A w \in Windows : /\ S.win[w].x \in -MaxCoord..MaxCoord
                          /\ S.win[w].y \in -MaxCoord..MaxCoord
    /\ win' = S.win
    /\ desk' = S.desk
    /\ focus' = S.focus
    /\ log' = S.log

---------------------------------------------------------------------------
(* Window geometry.                                                        *)

\* The border minimum of SetRect and SetRestoredRect ("Same code in Set*Rect").
\* The width bound with the minimum of a bordered window left out.
BoundWidthUnclamped(border, width) == width

BoundWidth(border, width) ==
    IF border /\ width < MinBorderWidth THEN MinBorderWidth ELSE width

BoundHeight(border, height) ==
    IF border /\ height < MinBorderHeight THEN MinBorderHeight ELSE height

\* SetRect storing the restored rectangle whatever the state is.
SetRectStoresRestored(S, w, x, y, width, height) ==
    LET wr == S.win[w]
        bw == BoundWidth(wr.border, width)
        bh == BoundHeight(wr.border, height)
    IN [S EXCEPT !.win[w] = [wr EXCEPT !.x = x, !.y = y, !.width = bw, !.height = bh,
                                        !.rx = x, !.ry = y, !.rw = bw, !.rh = bh],
                 !.log = Append(@, Ev("SetRect", w, Flag(bw # width \/ bh # height)))]

\* Window.SetRect
SetRect(S, w, x, y, width, height) ==
    LET wr == S.win[w]
        bw == BoundWidth(wr.border, width)
        bh == BoundHeight(wr.border, height)
        boxed == [wr EXCEPT !.x = x, !.y = y, !.width = bw, !.height = bh]
        kept == IF boxed.state = Restored
                THEN [boxed EXCEPT !.rx = x, !.ry = y, !.rw = bw, !.rh = bh,
                                   !.rset = TRUE, !.rlate = FALSE]
                ELSE boxed
        called == Append(S.log, Ev("SetRect", w, Flag(bw # width \/ bh # height)))
    IN [S EXCEPT !.win[w] = kept,
                 !.log = IF wr.desktop # None
                         THEN Append(called, Ev("Resized", w, 0))
                         ELSE called]


\* Window.SetRestoredRect
SetRestoredRect(S, w, x, y, width, height) ==
    LET wr == S.win[w]
    IN IF wr.state = Restored
       THEN SetRect(S, w, x, y, width, height)
       ELSE [S EXCEPT !.win[w] =
                [wr EXCEPT !.rx = x, !.ry = y,
                           !.rw = BoundWidth(wr.border, width),
                           !.rh = BoundHeight(wr.border, height),
                           !.rlate = TRUE]]

\* Box.GetInnerRect of a desktop: the rectangle inside the border, never of
\* negative size.
GetInnerRect(dr) ==
    LET b == IF dr.border THEN 1 ELSE 0
        iw == dr.width - 2 * b
        ih == dr.height - 2 * b
    IN [x |-> dr.x + b, y |-> dr.y + b,
        width |-> IF iw < 0 THEN 0 ELSE iw,
        height |-> IF ih < 0 THEN 0 ELSE ih]

\* Box.InRect
InRect(r, atX, atY) ==
    /\ atX >= r.x /\ atX < r.x + r.width
    /\ atY >= r.y /\ atY < r.y + r.height

\* The state transition without the test for the state the window has.
MgrSetStateAgain(S, w, state) ==
    LET wr == S.win[w]
        S1 == [S EXCEPT !.win[w].state = state]
    IN IF state = Restored THEN SetRect(S1, w, wr.rx, wr.ry, wr.rw, wr.rh)
       ELSE IF state = Minimized THEN SetRect(S1, w, 0, 0, 1, 1)
       ELSE IF wr.desktop # None
            THEN LET in == GetInnerRect(S.desk[wr.desktop])
                 IN SetRect(S1, w, in.x, in.y, in.width, in.height)
            ELSE S1

\* winMgr.SetState: the state transition of the default manager.
MgrSetState(S, w, state) ==
    LET wr == S.win[w]
        S1 == [S EXCEPT !.win[w].state = state]
    IN IF state = wr.state THEN S
       ELSE IF state = Restored THEN SetRect(S1, w, wr.rx, wr.ry, wr.rw, wr.rh)
       ELSE IF state = Minimized THEN SetRect(S1, w, 0, 0, 1, 1)
       ELSE IF wr.desktop # None
            THEN LET in == GetInnerRect(S.desk[wr.desktop])
                 IN SetRect(S1, w, in.x, in.y, in.width, in.height)
            ELSE S1

\* Window.SetState
SetState(S, w, state) ==
    IF S.win[w].desktop # None
    THEN MgrSetState(S, w, state)
    ELSE [S EXCEPT !.win[w].state = state]

\* Window.SetBorder
SetBorder(S, w, show) ==
    LET S1 == [S EXCEPT !.win[w].border = show]
    IN IF S.win[w].desktop # None
       THEN [S1 EXCEPT !.log = Append(@, Ev("Resized", w, 0))]
       ELSE S1

---------------------------------------------------------------------------
(* The window stack.                                                       *)

\* The index of the first entry of wins that is w, or 0.
IndexOf(wins, w) ==
    IF \E i \in 1..Len(wins) : wins[i] = w
    THEN CHOOSE i \in 1..Len(wins) :
            /\ wins[i] = w
            /\ \A j \in 1..(i - 1) : wins[j] # w
    ELSE 0

\* Dropping the last entry without the copy that closes the gap at i.
RemoveLast(wins, i) == SubSeq(wins, 1, Len(wins) - 1)

\* copy(wins[i:], wins[i+1:]) followed by dropping the last entry.
RemoveAt(wins, i) ==
    [j \in 1..(Len(wins) - 1) |-> IF j < i THEN wins[j] ELSE wins[j + 1]]

\* Exchanging entry i with the last entry instead of shifting.
SwapWithLast(wins, i) ==
    [j \in 1..Len(wins) |->
        IF j = i THEN wins[Len(wins)]
        ELSE IF j = Len(wins) THEN wins[i]
        ELSE wins[j]]

\* copy(wins[i:], wins[i+1:]) followed by wins[len(wins)-1] = w.
MoveToEnd(wins, i) ==
    [j \in 1..Len(wins) |->
        IF j < i THEN wins[j]
        ELSE IF j < Len(wins) THEN wins[j + 1]
        ELSE wins[i]]

InStack(S, w) == \E d \in Desktops : IndexOf(S.desk[d].wins, w) # 0

\* Window.BringToFront
BringToFront(S, w) ==
    LET d == S.win[w].desktop
    IN IF d # None /\ Len(S.desk[d].wins) > 0
       THEN LET wins == S.desk[d].wins
                i == IndexOf(wins, w)
            IN IF w # wins[Len(wins)] /\ i # 0
               THEN [S EXCEPT !.desk[d].wins = MoveToEnd(wins, i),
                              !.log = Append(@, Ev("moved to front", w, i))]
               ELSE S
       ELSE S

\* Desktop.TopWindow
TopWindow(dr) == IF Len(dr.wins) > 0 THEN dr.wins[Len(dr.wins)] ELSE None

\* NextWindow without the wrap from the bottom of the stack to its top.
NextWindowNoWrap(S, w) ==
    LET d == IF w = None THEN None ELSE S.win[w].desktop
    IN IF d = None THEN None
       ELSE LET wins == S.desk[d].wins
                i == IndexOf(wins, w)
            IN IF Len(wins) <= 1 \/ i <= 1 THEN None
               ELSE wins[i - 1]

\* Window.NextWindow
NextWindow(S, w) ==
    LET d == S.win[w].desktop
    IN IF d = None THEN None
       ELSE LET wins == S.desk[d].wins
                i == IndexOf(wins, w)
            IN IF Len(wins) <= 1 \/ i = 0 THEN None
               ELSE IF i = 1 THEN wins[Len(wins)]
               ELSE wins[i - 1]

\* Window.PrevWindow
PrevWindow(S, w) ==
    LET d == S.win[w].desktop
    IN IF d = None THEN None
       ELSE LET wins == S.desk[d].wins
                i == IndexOf(wins, w)
            IN IF Len(wins) <= 1 \/ i = 0 THEN None
               ELSE IF i = Len(wins) THEN wins[1]
               ELSE wins[i + 1]

\* Window.HasFocus: the application has given the window the focus, or the
\* focus flag of its box or client is set.
HasFocus(S, w) == S.focus = w \/ S.win[w].hasFocus

\* Window.Activate; setFocus is the application's, which gives w the focus.
Activate(S, w) ==
    LET Focused(S1) ==
            IF ~HasFocus(S1, w)
            THEN [S1 EXCEPT !.focus = w, !.log = Append(@, Ev("setFocus", w, 0))]
            ELSE S1
    IN Focused(BringToFront(S, w))

\* Window.InitWindow
InitWindow(S, w) ==
    LET d == S.win[w].desktop
    IN IF d = None THEN S
       ELSE LET in == GetInnerRect(S.desk[d])
                pos == S.desk[d].autoWinPos
                next == pos + 2
                Placed(S0) ==
                    [SetRect(S0, w, in.x + pos, in.y + pos,
                             S.win[w].width, S.win[w].height)
                        EXCEPT !.desk[d].autoWinPos =
                            IF next >= in.width - 10 \/ next >= in.height - 10
                            THEN 0 ELSE next]
                Positioned(S0) == IF S.win[w].autoPosition THEN Placed(S0) ELSE S0
            IN Positioned([S EXCEPT !.log = Append(@, Ev("InitWindow", w, 0)),
                                    !.win[w].inits = @ + 1])

\* RemoveWindow calling the hook and leaving the entry in the stack.
RemoveWindowKeepsEntry(S, d, w) ==
    IF IndexOf(S.desk[d].wins, w) = 0 THEN S
    ELSE [S EXCEPT !.log = Append(@, Ev("Removed", w, 1))]

\* winMgr.Added(w), called on manager m: the call is logged with whether w
\* is in a stack, and counted for m.
HookAdded(S, m, w) ==
    [S EXCEPT !.log = Append(@, Ev("Added", w, Flag(InStack(S, w)))),
              !.win[w].hooks[m] = @ + 1]

\* winMgr.Removed(w), called on manager m.
HookRemoved(S, m, w) ==
    [S EXCEPT !.log = Append(@, Ev("Removed", w, Flag(InStack(S, w)))),
              !.win[w].hooks[m] = @ - 1]

\* Desktop.RemoveWindow
RemoveWindow(S, d, w) ==
    LET wins == S.desk[d].wins
        i == IndexOf(wins, w)
    IN IF i = 0 THEN S
       ELSE HookRemoved([S EXCEPT !.desk[d].wins = RemoveAt(wins, i)],
                        S.desk[d].winMgr, w)

\* Desktop.AddWindow
AddWindow(S, d, w) ==
    LET from == S.win[w].desktop
        Attach(S1) == [S1 EXCEPT !.desk[d].wins = Append(@, w),
                                 !.win[w].desktop = d,
                                 !.win[w].inits = 0, !.win[w].painted = FALSE]
        Layout(S2) == IF S2.desk[d].init THEN InitWindow(S2, w) ELSE S2
        Added(S3) == HookAdded(S3, S3.desk[d].winMgr, w)
    IN IF from = d THEN S
       ELSE Added(Layout(Attach(IF from # None THEN RemoveWindow(S, from, w)
                                ELSE S)))

\* A change of manager that tells the old manager nothing.
RemovedSkipped(S, d, i) == S

\* The loops of Desktop.SetWindowManager from the i-th window on.
RECURSIVE RemovedFrom(_, _, _)
RemovedFrom(S, d, i) ==
    IF i > Len(S.desk[d].wins) THEN S
    ELSE RemovedFrom(HookRemoved(S, S.desk[d].winMgr, S.desk[d].wins[i]), d, i + 1)

RECURSIVE AddedFrom(_, _, _)
AddedFrom(S, d, i) ==
    IF i > Len(S.desk[d].wins) THEN S
    ELSE AddedFrom(HookAdded(S, S.desk[d].winMgr, S.desk[d].wins[i]), d, i + 1)

\* Desktop.SetWindowManager; wm is a manager or None (nil).
SetWindowManager(S, d, wm) ==
    LET Swap(S1) ==
            [S1 EXCEPT !.desk[d].winMgr =
                          IF wm = None THEN DefaultWindowManager ELSE wm]
    IN IF S.desk[d].winMgr = wm THEN S
       ELSE AddedFrom(Swap(RemovedFrom(S, d, 1)), d, 1)

---------------------------------------------------------------------------
(* Desktop geometry and drawing.                                           *)

\* A desktop resize that re-fits no window.
ResizedSkipped(S, d, i) == S

\* The loop of winMgr.DesktopResized from the i-th window on.
RECURSIVE ResizedFrom(_, _, _)
ResizedFrom(S, d, i) ==
    IF i > Len(S.desk[d].wins) THEN S
    ELSE LET w == S.desk[d].wins[i]
             in == GetInnerRect(S.desk[d])
             S1 == IF S.win[w].state = Maximized
                   THEN SetRect(S, w, in.x, in.y, in.width, in.height)
                   ELSE S
         IN ResizedFrom(S1, d, i + 1)

\* winMgr.DesktopResized
DesktopResized(S, d) == ResizedFrom(S, d, 1)

\* Desktop.SetRect
DesktopSetRect(S, d, x, y, width, height) ==
    DesktopResized([S EXCEPT !.desk[d].x = x, !.desk[d].y = y,
                             !.desk[d].width = width, !.desk[d].height = height], d)

\* Desktop.SetBorder
DesktopSetBorder(S, d, show) ==
    DesktopResized([S EXCEPT !.desk[d].border = show], d)

\* The loop of Desktop.Draw from the i-th window on; first is TRUE in the
\* desktop's first draw.
RECURSIVE DrawFrom(_, _, _, _)
DrawFrom(S, d, first, i) ==
    IF i > Len(S.desk[d].wins) THEN S
    ELSE LET w == S.desk[d].wins[i]
             Drawn(S1) == [S1 EXCEPT !.log = Append(@, Ev("Draw", w, 0)),
                                     !.win[w].painted = TRUE]
         IN DrawFrom(Drawn(IF first THEN InitWindow(S, w) ELSE S), d, first, i + 1)

\* A draw that runs the first-time layout every time.
DrawAlwaysFirst(S, d) ==
    DrawFrom(DesktopResized([S EXCEPT !.desk[d].init = TRUE], d), d, TRUE, 1)

\* Desktop.Draw
Draw(S, d) ==
    LET first == ~S.desk[d].init
        Resized(S1) == IF first THEN DesktopResized(S1, d) ELSE S1
    IN DrawFrom(Resized([S EXCEPT !.desk[d].init = TRUE]), d, first, 1)

---------------------------------------------------------------------------
(* Mouse dispatch.  A mouse event e is a record: the action, the pointer   *)
(* position (x, y), whether the primary button is the only button held     *)
(* (only1), and whether a client's mouse handler, if asked, consumes the   *)
(* event (clientTakes).                                                    *)

Ret(S, consumed, capture) == [S EXCEPT !.consumed = consumed, !.capture = capture]

Bit(mask, b) == (mask \div b) % 2 = 1

SetBit(mask, b) == IF Bit(mask, b) THEN mask ELSE mask + b

\* The primary-button press of winMgr.DefaultMouseHandler.
MgrLeftDown(S, w, e) ==
    LET wr == S.win[w]
        caption == wr.border /\ e.y >= wr.y /\ e.y < wr.y + 1
        grabbed == IF caption
                   THEN [wr EXCEPT !.moveX = e.x - wr.x, !.moveY = e.y - wr.y,
                                   !.moving = e.only1]
                   ELSE wr
        horiz == e.x = wr.x + wr.width - 1
        vert == e.y = wr.y + wr.height - 1
        m1 == IF horiz THEN SetBit(wr.resizing, 1) ELSE wr.resizing
        m2 == IF vert THEN SetBit(m1, 2) ELSE m1
    IN IF grabbed.moving
       THEN Ret([S EXCEPT !.win[w] = grabbed], TRUE, w)
       ELSE IF grabbed.resizable
            THEN Ret([S EXCEPT !.win[w] = [grabbed EXCEPT !.resizing = m2]],
                     horiz \/ vert, IF horiz \/ vert THEN w ELSE None)
            ELSE Ret([S EXCEPT !.win[w] = grabbed], FALSE, None)

\* A mouse move that resizes in both directions whatever the resize mask is.
MgrMoveResizesBoth(S, w, e) ==
    LET wr == S.win[w]
    IN IF wr.moving
       THEN Ret(SetRect(S, w, wr.x + ((e.x - wr.x) - wr.moveX),
                        wr.y + ((e.y - wr.y) - wr.moveY), wr.width, wr.height),
                TRUE, w)
       ELSE IF wr.resizing # 0
            THEN Ret(SetRect(S, w, wr.x, wr.y, e.x - wr.x + 1, e.y - wr.y + 1),
                     TRUE, w)
            ELSE Ret(S, FALSE, None)

\* The mouse move of winMgr.DefaultMouseHandler.
MgrMove(S, w, e) ==
    LET wr == S.win[w]
    IN IF wr.moving
       THEN Ret(SetRect(S, w, wr.x + ((e.x - wr.x) - wr.moveX),
                        wr.y + ((e.y - wr.y) - wr.moveY), wr.width, wr.height),
                TRUE, w)
       ELSE IF wr.resizing # 0
            THEN Ret(SetRect(S, w, wr.x, wr.y,
                             IF Bit(wr.resizing, 1) THEN e.x - wr.x + 1 ELSE wr.width,
                             IF Bit(wr.resizing, 2) THEN e.y - wr.y + 1 ELSE wr.height),
                     TRUE, w)
            ELSE Ret(S, FALSE, None)

\* The entry of the log for a double click that changes the state of window
\* w: the state and the rectangle the window has when the click arrives.
Toggle(w, wr) ==
    [ev |-> "toggle", win |-> w, arg |-> wr.state,
     x |-> wr.x, y |-> wr.y, width |-> wr.width, height |-> wr.height]

\* The double click of winMgr.DefaultMouseHandler.
MgrDoubleClick(S, w, e) ==
    LET wr == S.win[w]
    IN IF wr.resizable /\ wr.desktop # None
          /\ wr.border /\ e.y >= wr.y /\ e.y < wr.y + 1
       THEN Ret(SetState([S EXCEPT !.log = Append(@, Toggle(w, wr))],
                         w, IF wr.state = Restored THEN Maximized ELSE Restored),
                TRUE, None)
       ELSE Ret(S, FALSE, None)

\* The default mouse handler with a release that leaves the resize mask set.
DefaultMouseHandlerKeepsMask(S, w, e) ==
    LET wr == S.win[w]
    IN IF ~InRect(wr, e.x, e.y) /\ ~wr.moving /\ wr.resizing = 0
       THEN Ret(S, FALSE, None)
       ELSE IF e.action = "LeftDown" THEN MgrLeftDown(S, w, e)
       ELSE IF e.action = "LeftUp"
            THEN IF wr.moving \/ wr.resizing # 0
                 THEN Ret([S EXCEPT !.win[w].moving = FALSE], TRUE, None)
                 ELSE Ret(S, FALSE, None)
       ELSE IF e.action = "Move" THEN MgrMove(S, w, e)
       ELSE IF e.action = "LeftDoubleClick" THEN MgrDoubleClick(S, w, e)
       ELSE Ret(S, FALSE, None)

\* winMgr.DefaultMouseHandler
DefaultMouseHandler(S, w, e) ==
    LET wr == S.win[w]
    IN IF ~InRect(wr, e.x, e.y) /\ ~wr.moving /\ wr.resizing = 0
       THEN Ret(S, FALSE, None)
       ELSE IF e.action = "LeftDown" THEN MgrLeftDown(S, w, e)
       ELSE IF e.action = "LeftUp"
            THEN IF wr.moving \/ wr.resizing # 0
                 THEN Ret([S EXCEPT !.win[w].moving = FALSE,
                                    !.win[w].resizing = 0], TRUE, None)
                 ELSE Ret(S, FALSE, None)
       ELSE IF e.action = "Move" THEN MgrMove(S, w, e)
       ELSE IF e.action = "LeftDoubleClick" THEN MgrDoubleClick(S, w, e)
       ELSE Ret(S, FALSE, None)

\* Window.MouseHandler reporting an activating press that nobody claims as
\* not consumed.
MouseHandlerActivationUnclaimed(S, w, e) ==
    LET wr == S.win[w]
        mouseInWin == InRect(wr, e.x, e.y)
        activated == e.action = "LeftDown" /\ mouseInWin /\ wr.autoActivate
        Offered(S0) == IF activated THEN Activate(S0, w) ELSE S0
        Managed(S1) == IF wr.desktop # None
                       THEN DefaultMouseHandler(S1, w, e)
                       ELSE Ret(S1, FALSE, None)
        Client(S2) ==
            IF S2.consumed THEN S2
            ELSE IF ~mouseInWin THEN Ret(S2, FALSE, None)
            ELSE IF wr.client
                 THEN Ret([S2 EXCEPT !.log =
                              Append(@, Ev("client", w, Flag(e.clientTakes)))],
                          e.clientTakes, None)
            ELSE Ret(S2, FALSE, S2.capture)
    IN Client(Managed(Offered(
           [S EXCEPT !.log = Append(@, Ev("MouseHandler", w, 0))])))

\* Window.MouseHandler
MouseHandler(S, w, e) ==
    LET wr == S.win[w]
        mouseInWin == InRect(wr, e.x, e.y)
        activated == e.action = "LeftDown" /\ mouseInWin /\ wr.autoActivate
        Offered(S0) == IF activated THEN Activate(S0, w) ELSE S0
        Managed(S1) == IF wr.desktop # None
                       THEN DefaultMouseHandler(S1, w, e)
                       ELSE Ret(S1, FALSE, None)
        Client(S2) ==
            IF S2.consumed THEN S2
            ELSE IF ~mouseInWin THEN Ret(S2, FALSE, None)
            ELSE IF wr.client
                 THEN Ret([S2 EXCEPT !.log =
                              Append(@, Ev("client", w, Flag(e.clientTakes)))],
                          e.clientTakes \/ activated, None)
            ELSE Ret(S2, activated, S2.capture)
    IN Client(Managed(Offered(
           [S EXCEPT !.log = Append(@, Ev("MouseHandler", w, 0))])))

\* The loop of Desktop.MouseHandler from index iwin down.
RECURSIVE OfferFrom(_, _, _, _)
OfferFrom(S, d, e, iwin) ==
    IF iwin < 1 \/ iwin > Len(S.desk[d].wins)
    THEN IF S.desk[d].client
         THEN Ret([S EXCEPT !.log = Append(@, Ev("client", None, Flag(e.clientTakes)))],
                  e.clientTakes, None)
         ELSE S
    ELSE LET Rest(S1) == IF S1.consumed THEN S1 ELSE OfferFrom(S1, d, e, iwin - 1)
         IN Rest(MouseHandler(S, S.desk[d].wins[iwin], e))

\* Desktop.MouseHandler without the test of the desktop's rectangle.
DesktopMouseHandlerAnywhere(S, d, e) ==
    LET Returned(S1) ==
            [S1 EXCEPT !.log = Append(@, Ev("return", S1.capture, Flag(S1.consumed)))]
    IN Returned(OfferFrom(S, d, e, Len(S.desk[d].wins)))

\* Desktop.MouseHandler
DesktopMouseHandler(S, d, e) ==
    LET Returned(S1) ==
            [S1 EXCEPT !.log = Append(@, Ev("return", S1.capture, Flag(S1.consumed)))]
    IN Returned(IF ~InRect(S.desk[d], e.x, e.y)
                THEN Ret(S, FALSE, None)
                ELSE OfferFrom(S, d, e, Len(S.desk[d].wins)))

---------------------------------------------------------------------------
(* Keyboard dispatch.                                                      *)

\* The first entry of the log of a key event given to desktop d.  mgrTakes
\* is the answer of a manager other than the default one, deskHandler and
\* winHandler say whether the client of the desktop and of a window have an
\* input handler.
KeyCall(d, k) ==
    [ev |-> "Key", win |-> None, arg |-> d, mgrTakes |-> k.mgrTakes,
     deskHandler |-> k.deskHandler, winHandler |-> k.winHandler]

\* winMgr.DefaultInputHandler consumes nothing; another manager may.
DefaultInputHandler(S, w, k) ==
    k.mgrTakes /\ S.desk[S.win[w].desktop].winMgr # DefaultWindowManager

\* Window.InputHandler
InputHandler(S, w, k) ==
    LET wr == S.win[w]
        asked == wr.desktop # None /\ HasFocus(S, w)
        taken == asked /\ DefaultInputHandler(S, w, k)
        Manager(S1) ==
            IF asked
            THEN [S1 EXCEPT !.log = Append(@, Ev("DefaultInputHandler", w, Flag(taken)))]
            ELSE S1
        Client(S2) ==
            IF ~taken /\ wr.client /\ HasFocus(S2, w) /\ k.winHandler
            THEN [S2 EXCEPT !.log = Append(@, Ev("client key", w, 0))]
            ELSE S2
    IN Client(Manager([S EXCEPT !.log = Append(@, Ev("InputHandler", w, 0))]))

\* The loop of Desktop.InputHandler from the i-th window on, which gives the
\* event to every window that has the focus.
RECURSIVE KeyToAllFrom(_, _, _, _)
KeyToAllFrom(S, d, k, i) ==
    IF i > Len(S.desk[d].wins) THEN S
    ELSE LET w == S.desk[d].wins[i]
         IN KeyToAllFrom(IF HasFocus(S, w) THEN InputHandler(S, w, k) ELSE S,
                         d, k, i + 1)

\* The loop of Desktop.InputHandler from the i-th window on.
RECURSIVE KeyFrom(_, _, _, _)
KeyFrom(S, d, k, i) ==
    IF i > Len(S.desk[d].wins) THEN S
    ELSE LET w == S.desk[d].wins[i]
         IN IF HasFocus(S, w) THEN InputHandler(S, w, k)
            ELSE KeyFrom(S, d, k, i + 1)

\* Desktop.InputHandler
DesktopInputHandler(S, d, k) ==
    LET dr == S.desk[d]
    IN IF dr.client /\ dr.clientFocus /\ k.deskHandler
       THEN [S EXCEPT !.log = Append(@, Ev("client key", None, d))]
       ELSE KeyFrom(S, d, k, 1)

\* Window.Focus and the Blur of its box: the focus flag of the window's box
\* or client.
Focus(S, w, on) == [S EXCEPT !.win[w].hasFocus = on]

---------------------------------------------------------------------------
(* Click counting and the double-click delay (src/desktop.go).  Times are  *)
(* in milliseconds, the durations given to SetDoubleClickDelay in          *)
(* microseconds.                                                           *)

\* The bitwise exclusive or of two natural numbers.
RECURSIVE Xor(_, _)
Xor(a, b) ==
    IF a = 0 THEN b
    ELSE IF b = 0 THEN a
    ELSE ((a + b) % 2) + 2 * Xor(a \div 2, b \div 2)

\* clickPosxy := atX ^ atY<<16
ClickPosxy(atX, atY) == Xor(atX, atY * PosShift)

\* Desktop.GetClickCount
GetClickCount(dr) == dr.clickCount

\* Desktop.GetDoubleClickDelay, in milliseconds.
GetDoubleClickDelay(dr) == dr.dclickDelay20ms * DelayUnitMs

\* Desktop.SetDoubleClickDelay; dur.Milliseconds() drops the fraction of a
\* millisecond.
SetDoubleClickDelay(S, d, dur) ==
    LET ms == dur \div 1000
        whole == ms \div DelayUnitMs
        dur20ms == IF ms % DelayUnitMs >= 10 THEN whole + 1 ELSE whole
    IN IF dur20ms >= MaxDelayUnits THEN S
       ELSE [S EXCEPT !.desk[d].dclickDelay20ms = dur20ms % ByteRange]

\* Desktop.withinClickDelay at the time now.
WithinClickDelay(dr, now) == now < dr.lastClickTimeMs + GetDoubleClickDelay(dr)

\* The first entry of the log of a mouse event that desktop d observes at
\* the time now.
ObserveCall(d, e, now) ==
    [ev |-> "Observe", win |-> None, arg |-> d,
     action |-> e.action, x |-> e.x, y |-> e.y, now |-> now]

\* Desktop.ObserveMouseEvent, with time.Now() = now.
ObserveMouseEvent(S, d, e, now) ==
    LET dr == S.desk[d]
        clickPosxy == ClickPosxy(e.x, e.y)
        within == WithinClickDelay(dr, now)
        count == IF clickPosxy # dr.lastClickPosxy \/ dr.clickCount = 0 THEN 1
                 ELSE IF within THEN (dr.clickCount + 1) % ByteRange
                 ELSE 1
        run == IF dr.run > 0 /\ e.x = dr.lastX /\ e.y = dr.lastY
                  /\ now - dr.lastClickTimeMs < GetDoubleClickDelay(dr)
               THEN dr.run + 1 ELSE 1
    IN IF e.action = "LeftClick"
       THEN [S EXCEPT !.desk[d] =
                [dr EXCEPT !.clickCount = count, !.lastClickTimeMs = now,
                           !.lastClickPosxy = clickPosxy,
                           !.run = run, !.lastX = e.x, !.lastY = e.y]]
       ELSE S

---------------------------------------------------------------------------
(* Inputs.                                                                 *)

\* The rectangles given to Window.SetRect and Window.SetRestoredRect.
RectArgs == {<<0, 0, -1, 0>>, <<0, 0, 5, 1>>, <<1, 0, 13, 3>>}

\* The rectangles given to Desktop.SetRect.
DeskRects == {<<0, 0, 13, 3>>}

PosX == {0, 11}
PosY == {0, 1}

Actions == {"LeftDown", "LeftUp", "Move", "LeftClick", "LeftDoubleClick"}

\* The actions the default manager reads.
DragActions == {"LeftDown", "LeftUp", "Move", "LeftDoubleClick"}

\* The mouse events; the buttons are read on a press only, and the client's
\* answer only where a client is asked.
MouseEvents(actions, clients) ==
    {e \in [action : actions, x : PosX, y : PosY,
            only1 : BOOLEAN, clientTakes : BOOLEAN] :
        /\ e.action # "LeftDown" => e.only1
        /\ ~clients => ~e.clientTakes}

---------------------------------------------------------------------------
(* Actions: the calls the application makes.                               *)

CallSetRect(w) ==
    \E r \in RectArgs :
        Becomes(SetRect(Cur(Ev("call SetRect", w, 0)), w, r[1], r[2], r[3], r[4]))

CallSetRestoredRect(w) ==
    \E r \in RectArgs :
        Becomes(SetRestoredRect(Cur(RectCall("call SetRestoredRect", w, r)),
                                w, r[1], r[2], r[3], r[4]))

CallSetState(w) ==
    \E state \in States :
        Becomes(SetState(Cur(Ev("call SetState", w, state)), w, state))

CallSetBorder(w) ==
    \E show \in BOOLEAN :
        Becomes(SetBorder(Cur(Ev("call SetBorder", w, Flag(show))), w, show))

CallBringToFront(w) ==
    Becomes(BringToFront(Cur(Ev("call BringToFront", w, 0)), w))

CallAddWindow(d, w) ==
    Becomes(AddWindow(Cur(Ev("call AddWindow", w, d)), d, w))

CallRemoveWindow(d, w) ==
    Becomes(RemoveWindow(Cur(Ev("call RemoveWindow", w, d)), d, w))

CallSetWindowManager(d) ==
    \E wm \in Managers \cup {None} :
        Becomes(SetWindowManager(Cur(Ev("call SetWindowManager", wm, d)), d, wm))

CallDesktopSetRect(d) ==
    \E r \in DeskRects :
        Becomes(DesktopSetRect(Cur(Ev("call Desktop.SetRect", None, d)),
                               d, r[1], r[2], r[3], r[4]))

CallDesktopSetBorder(d) ==
    \E show \in BOOLEAN :
        Becomes(DesktopSetBorder(Cur(Ev("call Desktop.SetBorder", None, d)), d, show))

CallDraw(d) ==
    Becomes(Draw(Cur(Ev("call Draw", None, d)), d))

CallMouse(d, actions) ==
    \E e \in MouseEvents(actions,
                         desk[d].client \/ \E w \in Windows : win[w].client) :
        Becomes(DesktopMouseHandler(Cur(MouseCall(d, e)), d, e))

\* A mouse event in the column to the right of the desktop's rectangle.
CallMouseOutside(d) ==
    \E e \in MouseEvents(Actions,
                         desk[d].client \/ \E w \in Windows : win[w].client) :
        LET out == [e EXCEPT !.x = desk[d].x + desk[d].width]
        IN Becomes(DesktopMouseHandler(Cur(MouseCall(d, out)), d, out))

CallFocus(w) ==
    \E on \in BOOLEAN :
        Becomes(Focus(Cur(Ev("call Focus", w, Flag(on))), w, on))

\* The application gives the focus to the client of desktop d, or takes it
\* away.
CallFocusClient(d) ==
    \E on \in BOOLEAN :
        /\ desk[d].client
        /\ Becomes([Cur(Ev("call client.Focus", None, d))
                       EXCEPT !.desk[d].clientFocus = on])

CallInputHandler(d) ==
    \E k \in [mgrTakes : BOOLEAN, deskHandler : BOOLEAN, winHandler : BOOLEAN] :
        Becomes(DesktopInputHandler(Cur(KeyCall(d, k)), d, k))

\* The times that time.Now() can give a desktop that observes an event: the
\* time of its last click, and the last instant inside and the first
\* instant outside the double-click delay after it.
Nows(dr) ==
    {t \in {dr.lastClickTimeMs, dr.lastClickTimeMs + GetDoubleClickDelay(dr) - 1,
            dr.lastClickTimeMs + GetDoubleClickDelay(dr)} :
        t >= dr.lastClickTimeMs /\ t <= MaxTimeMs}

CallObserveMouseEvent(d) ==
    \E e \in [action : {"LeftClick", "Move"}, x : PosX, y : PosY],
       now \in Nows(desk[d]) :
        /\ desk[d].run < MaxRun
        /\ Becomes(ObserveMouseEvent(Cur(ObserveCall(d, e, now)), d, e, now))

\* The durations given to SetDoubleClickDelay, in microseconds.
Durations ==
    {0, 9999, 10000, 20000, 29999, 30000, 5089999, 5090000, 5100000, 6000000}

\* The first entry of the log of SetDoubleClickDelay(dur) on desktop d.
DelayCall(d, dur) ==
    [ev |-> "call SetDoubleClickDelay", win |-> None, arg |-> d, dur |-> dur]

CallSetDoubleClickDelay(d) ==
    \E dur \in Durations :
        Becomes(SetDoubleClickDelay(Cur(DelayCall(d, dur)), d, dur))

\* The state after construction.
Init ==
    /\ win = [w \in Windows |-> NewWindow]
    /\ desk = [d \in Desktops |-> NewDesktop]
    /\ focus = None
    /\ log = <<>>
    /\ calls = 0

\* A call of a specification that bounds the number of calls, and a call of
\* one that does not.
Bounded(Call) == calls < MaxCalls /\ calls' = calls + 1 /\ Call
Free(Call) == Call /\ UNCHANGED calls

\* The window stacks of several desktops.
StackNext ==
    \/ \E d \in Desktops, w \in Windows : Free(CallAddWindow(d, w))
    \/ \E d \in Desktops, w \in Windows : Free(CallRemoveWindow(d, w))
    \/ \E w \in Windows : Free(CallBringToFront(w))
    \/ \E d \in Desktops : Free(CallDraw(d))

StackSpec == Init /\ [][StackNext]_vars

\* The window stacks of several desktops and their window managers.
HookNext ==
    \/ \E d \in Desktops, w \in Windows : Free(CallAddWindow(d, w))
    \/ \E d \in Desktops, w \in Windows : Free(CallRemoveWindow(d, w))
    \/ \E d \in Desktops : Free(CallSetWindowManager(d))

HookSpec == Init /\ [][HookNext]_vars

\* The window and the desktop of the geometry specification.
GeomWindow == 1
GeomDesktop == 1

\* A window as the application configures it before it is attached:
\* NewWindow().SetResizable(..).SetAutoPosition(..).SetBorder(..).
Configured(border, resizable, autoPosition) ==
    [NewWindow EXCEPT !.border = border, !.resizable = resizable,
                      !.autoPosition = autoPosition]

\* The windows wins, configured as in cfg, and added in this order to desktop
\* d before its first draw (when wins is empty, no window is attached).
Attached(d, wins, cfg) ==
    /\ win = [w \in Windows |->
                IF IndexOf(wins, w) # 0
                THEN [cfg[w] EXCEPT !.desktop = d,
                                    !.hooks[DefaultWindowManager] = 1]
                ELSE cfg[w]]
    /\ desk = [e \in Desktops |->
                IF e = d THEN [NewDesktop EXCEPT !.wins = wins] ELSE NewDesktop]
    /\ focus = None
    /\ log = <<>>
    /\ calls = 0

\* The window is configured, and attached or not.
GeomInit ==
    \E b \in BOOLEAN, r \in BOOLEAN, a \in BOOLEAN,
       wins \in {<<>>, <<GeomWindow>>} :
        Attached(GeomDesktop, wins,
                 [w \in Windows |->
                    IF w = GeomWindow THEN Configured(b, r, a) ELSE NewWindow])

\* The geometry of a window of one desktop, over a bounded number of calls.
GeomNext ==
    \/ Bounded(CallSetRect(GeomWindow))
    \/ Bounded(CallSetRestoredRect(GeomWindow))
    \/ Bounded(CallSetState(GeomWindow))
    \/ Bounded(CallSetBorder(GeomWindow))
    \/ Bounded(CallAddWindow(GeomDesktop, GeomWindow))
    \/ Bounded(CallRemoveWindow(GeomDesktop, GeomWindow))
    \/ Bounded(CallDesktopSetRect(GeomDesktop))
    \/ Bounded(CallDesktopSetBorder(GeomDesktop))
    \/ Bounded(CallDraw(GeomDesktop))
    \/ Bounded(CallMouse(GeomDesktop, DragActions))

GeomSpec == GeomInit /\ [][GeomNext]_vars

\* Two overlapping windows of one desktop, window 1 below window 2, each
\* configured by SetBorder, SetResizable, SetAutoActivate and SetClient, and
\* a bounded number of mouse events and BringToFront calls.
MouseDesktop == 1

Flagged(border, resizable, autoActivate, client) ==
    [NewWindow EXCEPT !.border = border, !.resizable = resizable,
                      !.autoActivate = autoActivate, !.client = client]

MouseInit ==
    \E f \in [1..2 -> [border : BOOLEAN, resizable : BOOLEAN,
                       autoActivate : BOOLEAN, client : BOOLEAN]] :
        Attached(MouseDesktop, <<1, 2>>,
                 [w \in Windows |->
                    IF w \in 1..2
                    THEN Flagged(f[w].border, f[w].resizable,
                                 f[w].autoActivate, f[w].client)
                    ELSE NewWindow])

MouseNext ==
    \/ calls < MaxEvents /\ calls' = calls + 1 /\ CallMouse(MouseDesktop, Actions)
    \/ \E w \in 1..2 :
          calls < MaxEvents /\ calls' = calls + 1 /\ CallBringToFront(w)

MouseSpec == MouseInit /\ [][MouseNext]_vars

\* The two windows of MouseInit, with mouse events inside and outside the
\* desktop's rectangle.
OutsideNext ==
    \/ calls < MaxEvents /\ calls' = calls + 1 /\ CallMouse(MouseDesktop, Actions)
    \/ calls < MaxEvents /\ calls' = calls + 1 /\ CallMouseOutside(MouseDesktop)

OutsideSpec == MouseInit /\ [][OutsideNext]_vars

\* The two windows of MouseInit, with presses, SetRect calls that put a
\* window where a press misses it, and focus changes.
PressNext ==
    \/ calls < MaxEvents + 1 /\ calls' = calls + 1
          /\ CallMouse(MouseDesktop, {"LeftDown"})
    \/ \E w \in 1..2 : calls < MaxEvents + 1 /\ calls' = calls + 1 /\ CallSetRect(w)
    \/ \E w \in 1..2 : calls < MaxEvents + 1 /\ calls' = calls + 1 /\ CallFocus(w)

PressSpec == MouseInit /\ [][PressNext]_vars

\* Two windows, each with auto-position on or off and with the state
\* Restored or Maximized stored by SetState before it is attached, and
\* desktops of 13 by 13 that have not been drawn; the windows are added,
\* removed, moved and given a state while the desktops are drawn.
LayoutInit ==
    \E a \in [1..2 -> BOOLEAN], s \in [1..2 -> {Restored, Maximized}] :
        /\ win = [w \in Windows |->
                    IF w \in 1..2
                    THEN [Configured(FALSE, FALSE, a[w]) EXCEPT !.state = s[w]]
                    ELSE NewWindow]
        /\ desk = [d \in Desktops |-> [NewDesktop EXCEPT !.width = 13, !.height = 13]]
        /\ focus = None
        /\ log = <<>>
        /\ calls = 0

LayoutNext ==
    \/ \E d \in Desktops, w \in 1..2 : Bounded(CallAddWindow(d, w))
    \/ \E d \in Desktops, w \in 1..2 : Bounded(CallRemoveWindow(d, w))
    \/ \E d \in Desktops : Bounded(CallDraw(d))
    \/ \E w \in 1..2 : Bounded(CallSetState(w))
    \/ \E w \in 1..2 : Bounded(CallSetRect(w))

LayoutSpec == LayoutInit /\ [][LayoutNext]_vars

\* One window, bordered or not and resizable or not, that SetRect has put
\* at (1,1) with the size 11 by 1 or at (0,0) with the size 12 by 2 before
\* it was added to the desktop, and the presses, moves and releases of the
\* pointer that follow.
ResizeInit ==
    \E b \in BOOLEAN, r \in BOOLEAN, at \in {<<1, 1, 11, 1>>, <<0, 0, 12, 2>>} :
        LET new == [win |-> [w \in Windows |-> Configured(b, r, FALSE)], log |-> <<>>]
            set == SetRect(new, GeomWindow, at[1], at[2], at[3], at[4])
        IN Attached(GeomDesktop, <<GeomWindow>>,
                    [w \in Windows |->
                       IF w = GeomWindow THEN set.win[w] ELSE NewWindow])

ResizeNext ==
    /\ calls < MaxEvents + 1
    /\ calls' = calls + 1
    /\ CallMouse(GeomDesktop, {"LeftDown", "Move", "LeftUp"})

ResizeSpec == ResizeInit /\ [][ResizeNext]_vars

\* The mouse events that one new desktop observes.
ClickDesktop == 1

ClickNext == Free(CallObserveMouseEvent(ClickDesktop))

ClickSpec == Init /\ [][ClickNext]_vars

\* The double-click delays given to the desktops.
DelayNext == \E d \in Desktops : Free(CallSetDoubleClickDelay(d))

DelaySpec == Init /\ [][DelayNext]_vars

\* The windows of one desktop, with or without clients, the desktop with or
\* without a client, and the key events given to the desktop.
KeyDesktop == 1

KeyInit ==
    \E c \in [Windows -> BOOLEAN], dc \in BOOLEAN :
        /\ win = [w \in Windows |->
                    [NewWindow EXCEPT !.client = c[w], !.desktop = KeyDesktop,
                                      !.hooks[DefaultWindowManager] = 1]]
        /\ desk = [d \in Desktops |->
                     IF d = KeyDesktop
                     THEN [NewDesktop EXCEPT !.client = dc,
                                             !.wins = [i \in Windows |-> i]]
                     ELSE NewDesktop]
        /\ focus = None
        /\ log = <<>>
        /\ calls = 0

KeyNext ==
    \/ \E w \in Windows : Free(CallFocus(w))
    \/ Free(CallFocusClient(KeyDesktop))
    \/ \E w \in Windows : Free(CallBringToFront(w))
    \/ Free(CallSetWindowManager(KeyDesktop))
    \/ Free(CallInputHandler(KeyDesktop))

KeySpec == KeyInit /\ [][KeyNext]_vars

---------------------------------------------------------------------------
(* Properties.                                                             *)

Rect(wr) == <<wr.x, wr.y, wr.width, wr.height>>
RestoredRect(wr) == <<wr.rx, wr.ry, wr.rw, wr.rh>>
HasMinimum(wr) == wr.width >= MinBorderWidth /\ wr.height >= MinBorderHeight
Logged(e) == \E i \in 1..Len(log) : log[i] = e
Called(name) == Len(log) > 0 /\ log[1].ev = name

\* C1: after a call that reached Window.SetRect on a window whose border is
\* on (SetRect itself, a state transition, a caption drag, an edge resize, a
\* desktop resize or auto-positioning), the window is at least 12 wide and 2
\* high, whatever size was asked for.
C1_SetRectKeepsBorderMinimum ==
    \A i \in 1..Len(log) :
        (log[i].ev = "SetRect" /\ win[log[i].win].border)
            => HasMinimum(win[log[i].win])

\* C1 witness: a mouse move (a drag or an edge resize) asked SetRect for less
\* than the minimum on a bordered window.
C1_Witness ==
    /\ Called("Move")
    /\ \E w \in Windows :
          /\ Logged(Ev("SetRect", w, 1))
          /\ win[w].border
          /\ win[w].width = MinBorderWidth

\* C2: a window whose border is on is at least 12 wide and 2 high in every
\* state, also right after SetBorder(true).
C2_BorderedHasMinimum ==
    \A w \in Windows : win[w].border => HasMinimum(win[w])

\* C3: while an attached window is not Restored, calls other than
\* SetRestoredRect leave its restored rectangle as it was last set while
\* Restored, and SetState(Restored) displays exactly that rectangle.
C3_RestoreReproducesRect ==
    [][\A w \in Windows :
          (/\ InStack(Cur(<<>>), w)
           /\ win[w].rset
           /\ win[w].state # Restored
           /\ ~Called("call SetRestoredRect")')
          => /\ RestoredRect(win'[w]) = RestoredRect(win[w])
             /\ log'[1] = Ev("call SetState", w, Restored)
                    => Rect(win'[w]) = RestoredRect(win[w])]_vars

\* C4: a press, click or double click inside the desktop at a position that
\* lies in two windows of its stack is consumed, and the lower of the two is
\* not offered the event: its fields and its place relative to the upper
\* window are as before.
C4_UpperWindowConsumes ==
    [][\A a \in Windows, b \in Windows :
          LET e == log'[1]
              d == e.arg
              wins == desk[d].wins
          IN (/\ e.ev \in {"LeftDown", "LeftClick", "LeftDoubleClick"}
              /\ IndexOf(wins, a) # 0
              /\ IndexOf(wins, a) < IndexOf(wins, b)
              /\ InRect(desk[d], e.x, e.y)
              /\ InRect(win[a], e.x, e.y)
              /\ InRect(win[b], e.x, e.y))
             => /\ log'[Len(log')].ev = "return" /\ log'[Len(log')].arg = 1
                /\ \A i \in 1..Len(log') : log'[i] # Ev("MouseHandler", a, 0)
                /\ win'[a] = win[a]
                /\ IndexOf(desk'[d].wins, a) < IndexOf(desk'[d].wins, b)]_vars

\* The stack of desktop d without window w.
Without(wins, w) == LET Other(x) == x # w IN SelectSeq(wins, Other)

\* C5: BringToFront on a window of a stack moves it to the end and keeps
\* the order of the others; on a window that is in no stack, and when
\* repeated, it changes no stack.
C5_BringToFrontMovesToEnd ==
    [][\A w \in Windows :
          log'[1] = Ev("call BringToFront", w, 0)
          => /\ \A d \in Desktops :
                   desk'[d].wins =
                       IF IndexOf(desk[d].wins, w) # 0
                       THEN Append(Without(desk[d].wins, w), w)
                       ELSE desk[d].wins
             /\ \A d \in Desktops :
                   IndexOf(desk[d].wins, w) # 0 => TopWindow(desk'[d]) = w
             /\ Called("call BringToFront") /\ log[1].win = w => desk' = desk]_vars

\* C5 witness: BringToFront has moved the bottom window of a stack of three.
C5_Witness ==
    \E w \in Windows, d \in Desktops :
        /\ Called("call BringToFront")
        /\ Logged(Ev("moved to front", w, 1))
        /\ Len(desk[d].wins) = 3
        /\ TopWindow(desk[d]) = w

\* k applications of NextWindow, starting from w.
RECURSIVE NextTimes(_, _, _)
NextTimes(S, w, k) == IF k = 0 THEN w ELSE NextWindow(S, NextTimes(S, w, k - 1))

\* C6: in a stack of two or more windows NextWindow is the window below
\* (from the bottom, the top) and PrevWindow the window above (from the top,
\* the bottom), each undoes the other, and NextWindow applied as often as
\* the stack is long visits every window and comes back; for a window in no
\* stack and in a stack of one both are none.
C6_NextPrevCycle ==
    LET S == Cur(<<>>)
    IN \A w \in Windows :
          IF \E d \in Desktops : IndexOf(desk[d].wins, w) # 0 /\ Len(desk[d].wins) >= 2
          THEN LET wins == desk[CHOOSE d \in Desktops :
                                    IndexOf(desk[d].wins, w) # 0].wins
                   n == Len(wins)
                   i == IndexOf(wins, w)
               IN /\ NextWindow(S, w) = wins[IF i = 1 THEN n ELSE i - 1]
                  /\ PrevWindow(S, w) = wins[IF i = n THEN 1 ELSE i + 1]
                  /\ PrevWindow(S, NextWindow(S, w)) = w
                  /\ NextWindow(S, PrevWindow(S, w)) = w
                  /\ {NextTimes(S, w, k) : k \in 0..(n - 1)}
                        = {wins[j] : j \in 1..n}
                  /\ NextTimes(S, w, n) = w
          ELSE NextWindow(S, w) = None /\ PrevWindow(S, w) = None

\* C6 witness: RemoveWindow has taken a window out of a stack of three, so
\* that a stack of two is left and the window removed is in no stack.
C6_Witness ==
    \E w \in Windows, d \in Desktops :
        /\ Logged(Ev("call RemoveWindow", w, d))
        /\ Logged(Ev("Removed", w, 0))
        /\ Len(desk[d].wins) = 2
        /\ NextWindow(Cur(<<>>), desk[d].wins[1]) = desk[d].wins[2]
        /\ NextWindow(Cur(<<>>), w) = None

\* C7: after AddWindow(w) on desktop d, w is the top window of d.
C7_AddedWindowIsTop ==
    \A w \in Windows, d \in Desktops :
        Logged(Ev("call AddWindow", w, d)) => TopWindow(desk[d]) = w

\* C8: no window is twice in the stacks of the desktops, and a window in the
\* stack of desktop d points to d.
C8_OneDesktopPerWindow ==
    \A w \in Windows :
        /\ Cardinality({<<d, i>> \in Desktops \X (1..NumWindows) :
                            i <= Len(desk[d].wins) /\ desk[d].wins[i] = w}) <= 1
        /\ \A d \in Desktops : IndexOf(desk[d].wins, w) # 0 => win[w].desktop = d

\* C8 witness: AddWindow has moved a window from the stack of one desktop to
\* the stack of another that holds a window already.
C8_Witness ==
    \E w \in Windows, d \in Desktops :
        /\ Logged(Ev("call AddWindow", w, d))
        /\ Logged(Ev("Removed", w, 0))
        /\ Len(desk[d].wins) >= 2
        /\ TopWindow(desk[d]) = w

\* C9: a window points to desktop d exactly when it is in the stack of d; in
\* particular it points to no desktop after RemoveWindow.
C9_RemovedWindowIsUnattached ==
    \A w \in Windows, d \in Desktops :
        win[w].desktop = d <=> IndexOf(desk[d].wins, w) # 0

\* C10: RemoveWindow(w) on a desktop whose stack holds w takes that entry
\* out, keeps the order of the others and calls Removed(w) once, when w is
\* no longer in the stack; on a desktop whose stack does not hold w it
\* changes nothing and calls no hook.
C10_RemoveWindowRemovesOne ==
    [][\A w \in Windows, d \in Desktops :
          log'[1] = Ev("call RemoveWindow", w, d)
          => IF IndexOf(desk[d].wins, w) # 0
             THEN /\ desk'[d].wins = Without(desk[d].wins, w)
                  /\ Len(desk'[d].wins) = Len(desk[d].wins) - 1
                  /\ log' = <<Ev("call RemoveWindow", w, d), Ev("Removed", w, 0)>>
                  /\ \A e \in Desktops \ {d} : desk'[e] = desk[e]
             ELSE /\ desk' = desk
                  /\ log' = <<Ev("call RemoveWindow", w, d)>>]_vars

\* C10 witness: RemoveWindow has taken a window out of a stack of three.
C10_Witness ==
    \E w \in Windows, d \in Desktops :
        /\ log = <<Ev("call RemoveWindow", w, d), Ev("Removed", w, 0)>>
        /\ Len(desk[d].wins) = 2

\* The entries one hook adds to the log for the windows of a stack, in order.
HookEntries(name, wins) == [i \in 1..Len(wins) |-> Ev(name, wins[i], 1)]

\* For every manager and window, the Added calls less the Removed calls are
\* 1 when the window is in the stack of a desktop with that manager, else 0.
HooksBalanced ==
    \A m \in Managers, w \in Windows :
        win[w].hooks[m] =
            IF \E d \in Desktops : IndexOf(desk[d].wins, w) # 0 /\ desk[d].winMgr = m
            THEN 1 ELSE 0

\* C11: the hooks are balanced in every state; Added is called only for a
\* window that is in a stack; and SetWindowManager with a manager other than
\* the active one calls Removed for every window of the stack, then makes
\* the manager (the default one for none) active, then calls Added for every
\* window, while with the active manager it calls nothing.
C11_HooksStayBalanced ==
    /\ [](HooksBalanced /\ \A i \in 1..Len(log) : log[i].ev = "Added" => log[i].arg = 1)
    /\ [][\A d \in Desktops :
            (log'[1].ev = "call SetWindowManager" /\ log'[1].arg = d)
            => LET wm == log'[1].win
               IN /\ desk'[d].wins = desk[d].wins
                  /\ \A e \in Desktops \ {d} : desk'[e] = desk[e]
                  /\ IF desk[d].winMgr = wm
                     THEN desk' = desk /\ Len(log') = 1
                     ELSE /\ desk'[d].winMgr =
                               IF wm = None THEN DefaultWindowManager ELSE wm
                          /\ SubSeq(log', 2, Len(log')) =
                               HookEntries("Removed", desk[d].wins)
                                 \o HookEntries("Added", desk[d].wins)]_vars

\* C11 witness: SetWindowManager has replaced the default manager of a
\* desktop with two windows, while a window of another desktop stays with
\* the default manager.
C11_Witness ==
    /\ Called("call SetWindowManager")
    /\ Len(log) = 5
    /\ \E d \in Desktops, e \in Desktops :
          /\ desk[d].winMgr # DefaultWindowManager /\ Len(desk[d].wins) = 2
          /\ desk[e].winMgr = DefaultWindowManager /\ Len(desk[e].wins) = 1

\* C12: SetState with the state the window has, on a window that has a
\* desktop, changes no field of the window and reaches no SetRect.
C12_SameStateIsNoOp ==
    [][\A w \in Windows, s \in States :
          (/\ log'[1] = Ev("call SetState", w, s)
           /\ win[w].desktop # None
           /\ win[w].state = s)
          => /\ win'[w] = win[w]
             /\ log' = <<Ev("call SetState", w, s)>>]_vars

\* C12 witness: SetState(Maximized) has been called on a window in a stack
\* that was Maximized with a rectangle other than the desktop's inner one.
C12_Witness ==
    \E w \in Windows :
        /\ log = <<Ev("call SetState", w, Maximized)>>
        /\ InStack(Cur(<<>>), w)
        /\ win[w].state = Maximized
        /\ LET in == GetInnerRect(desk[win[w].desktop])
           IN Rect(win[w]) # <<in.x, in.y, in.width, in.height>>

\* The rectangle in, as a tuple, and with the size raised to the minimum of
\* a bordered window.
AsRect(in) == <<in.x, in.y, in.width, in.height>>
Raised(border, in) ==
    <<in.x, in.y,
      IF border /\ in.width < MinBorderWidth THEN MinBorderWidth ELSE in.width,
      IF border /\ in.height < MinBorderHeight THEN MinBorderHeight ELSE in.height>>

\* C13, as stated: after SetState(Maximized) on a window that has a desktop,
\* and after Desktop.SetRect or Desktop.SetBorder for each Maximized window
\* of the stack, the window's rectangle is the desktop's inner rectangle; a
\* window of the stack that is not Maximized is unchanged by the desktop call.
C13_MaximizedFillsDesktop ==
    [][\A w \in Windows :
          /\ (log'[1] = Ev("call SetState", w, Maximized) /\ win[w].desktop # None)
             => Rect(win'[w]) = AsRect(GetInnerRect(desk[win[w].desktop]))
          /\ \A d \in Desktops :
                (/\ log'[1] \in {Ev("call Desktop.SetRect", None, d),
                                 Ev("call Desktop.SetBorder", None, d)}
                 /\ IndexOf(desk[d].wins, w) # 0)
                => IF win[w].state = Maximized
                   THEN Rect(win'[w]) = AsRect(GetInnerRect(desk'[d]))
                   ELSE win'[w] = win[w]]_vars

\* C13, amended: after a SetState(Maximized) that changes the state of a
\* window that has a desktop, and after Desktop.SetRect or Desktop.SetBorder
\* for each Maximized window of the stack, the window's rectangle is the
\* desktop's inner rectangle with the size of a bordered window raised to
\* 12x2; a window of the stack that is not Maximized is unchanged by the
\* desktop call.
C13_MaximizedFillsDesktopBounded ==
    [][\A w \in Windows :
          /\ (/\ log'[1] = Ev("call SetState", w, Maximized)
              /\ win[w].desktop # None
              /\ win[w].state # Maximized)
             => /\ Rect(win'[w]) =
                      Raised(win[w].border, GetInnerRect(desk[win[w].desktop]))
                /\ win'[w].state = Maximized
          /\ \A d \in Desktops :
                (/\ log'[1] \in {Ev("call Desktop.SetRect", None, d),
                                 Ev("call Desktop.SetBorder", None, d)}
                 /\ IndexOf(desk[d].wins, w) # 0)
                => IF win[w].state = Maximized
                   THEN Rect(win'[w]) = Raised(win[w].border, GetInnerRect(desk'[d]))
                   ELSE win'[w] = win[w]]_vars

\* C13 witness: Desktop.SetBorder(true) has re-fitted a Maximized bordered
\* window of the stack to an inner rectangle narrower than 12 columns.
C13_Witness ==
    \E w \in Windows, d \in Desktops :
        /\ Called("call Desktop.SetBorder") /\ log[1].arg = d
        /\ Logged(Ev("SetRect", w, 1))
        /\ IndexOf(desk[d].wins, w) # 0
        /\ win[w].state = Maximized /\ win[w].border
        /\ GetInnerRect(desk[d]).width < MinBorderWidth
        /\ GetInnerRect(desk[d]).width > 0

\* C14: SetState(Minimized) on a window that has a desktop and is not
\* Minimized makes it Minimized with the rectangle (0,0,12,2) when bordered
\* and (0,0,1,1) when not, and leaves the restored rectangle as it was.
C14_MinimizeKeepsRestoredRect ==
    [][\A w \in Windows :
          (/\ log'[1] = Ev("call SetState", w, Minimized)
           /\ win[w].desktop # None
           /\ win[w].state # Minimized)
          => /\ win'[w].state = Minimized
             /\ Rect(win'[w]) = IF win[w].border
                                THEN <<0, 0, MinBorderWidth, MinBorderHeight>>
                                ELSE <<0, 0, 1, 1>>
             /\ RestoredRect(win'[w]) = RestoredRect(win[w])]_vars

\* C14 witness: SetState(Minimized) has minimized a bordered window of a
\* stack whose restored rectangle was set by SetRect and is not (0,0,12,2).
C14_Witness ==
    \E w \in Windows :
        /\ Logged(Ev("call SetState", w, Minimized))
        /\ Logged(Ev("SetRect", w, 1))
        /\ InStack(Cur(<<>>), w)
        /\ win[w].border /\ win[w].rset
        /\ Rect(win[w]) = <<0, 0, MinBorderWidth, MinBorderHeight>>
        /\ RestoredRect(win[w]) # Rect(win[w])

\* The mouse event of the step is given to desktop d, lies in d's rectangle
\* and is offered first to window w, the top of d's stack.
OfferedFirst(d, w) ==
    /\ log'[1].ev \in Actions /\ log'[1].arg = d
    /\ InRect(desk[d], log'[1].x, log'[1].y)
    /\ TopWindow(desk[d]) = w

\* What the mouse event of the step returned: consumed, and the capture.
ReturnedConsumed == log'[Len(log')].ev = "return" /\ log'[Len(log')].arg = 1
ReturnedCapture == log'[Len(log')].win

\* C15: a press with only the primary button on the caption row of a
\* bordered window records the offset of the pointer from the window's
\* top-left corner, sets moving and is consumed; a mouse move handled while
\* moving puts the top-left corner at the pointer less the offset, keeps
\* width and height, and is consumed.
C15_CaptionDragMoves ==
    [][\A d \in Desktops, w \in Windows :
          OfferedFirst(d, w) =>
            LET e == log'[1]
            IN /\ (/\ e.ev = "LeftDown" /\ e.only1
                   /\ win[w].border
                   /\ InRect(win[w], e.x, e.y) /\ e.y = win[w].y)
                  => /\ win'[w].moving
                     /\ win'[w].moveX = e.x - win[w].x
                     /\ win'[w].moveY = e.y - win[w].y
                     /\ ReturnedConsumed
               /\ (e.ev = "Move" /\ win[w].moving)
                  => /\ Rect(win'[w]) = <<e.x - win[w].moveX, e.y - win[w].moveY,
                                          win[w].width, win[w].height>>
                     /\ ReturnedConsumed]_vars

\* A window is in a drag: it is moving or its resize mask is not empty.
Dragging(wr) == wr.moving \/ wr.resizing # 0

\* C16: a release offered to a window in a drag clears moving and the resize
\* mask, changes no rectangle and returns consumed without capture; a
\* release offered to a window not in a drag, whose client does not take it,
\* is not consumed; a mouse move offered to a window not in a drag changes
\* no field of it; and only a press puts a window in a drag.
C16_ReleaseEndsDrag ==
    [][/\ \A d \in Desktops, w \in Windows :
            OfferedFirst(d, w) =>
              LET e == log'[1]
              IN /\ (e.ev = "LeftUp" /\ Dragging(win[w]))
                    => /\ ~Dragging(win'[w])
                       /\ Rect(win'[w]) = Rect(win[w])
                       /\ ReturnedConsumed /\ ReturnedCapture = None
                 /\ (e.ev = "LeftUp" /\ ~Dragging(win[w]) /\ ~e.clientTakes)
                    => ~ReturnedConsumed /\ win'[w] = win[w]
                 /\ (e.ev = "Move" /\ ~Dragging(win[w])) => win'[w] = win[w]
       /\ \A w \in Windows :
            (~Dragging(win[w]) /\ Dragging(win'[w])) => log'[1].ev = "LeftDown"]_vars

\* C16 witness: a release has ended the resize of a window that a move of
\* the pointer had made one row higher, from (0,0,5,1) to (0,0,5,2).
C16_Witness ==
    \E w \in Windows :
        /\ Called("LeftUp")
        /\ Logged(Ev("MouseHandler", w, 0))
        /\ Logged(Ev("return", None, 1))
        /\ ~Dragging(win[w])
        /\ win[w].resizable /\ ~win[w].border
        /\ Rect(win[w]) = <<0, 0, 5, 2>>

\* C17: every mouse event offered to a window in a drag is consumed, with
\* the window as capture unless the event is the release, which returns no
\* capture; and no mouse event returns a capture without being consumed.
C17_DragKeepsCapture ==
    [][/\ \A d \in Desktops, w \in Windows :
            (OfferedFirst(d, w) /\ Dragging(win[w]))
            => /\ ReturnedConsumed
               /\ ReturnedCapture = IF log'[1].ev = "LeftUp" THEN None ELSE w
       /\ (log'[1].ev \in Actions /\ ~ReturnedConsumed) => ReturnedCapture = None]_vars

\* C18: a double click on the caption row of a bordered, resizable window
\* that has a desktop makes a Restored window Maximized and a Minimized or
\* Maximized window Restored, and is consumed without capture; any other
\* double click leaves the state of the window it is offered to first as it
\* was; and the second of two caption double clicks in a row that began
\* with the window Restored leaves it Restored with the rectangle it had
\* before the first.
C18_DoubleClickToggles ==
    [][\A d \in Desktops, w \in Windows :
          (OfferedFirst(d, w) /\ log'[1].ev = "LeftDoubleClick") =>
            LET e == log'[1]
                caption == /\ win[w].border /\ win[w].resizable
                           /\ win[w].desktop # None
                           /\ InRect(win[w], e.x, e.y) /\ e.y = win[w].y
            IN /\ caption
                  => /\ win'[w].state =
                          IF win[w].state = Restored THEN Maximized ELSE Restored
                     /\ ReturnedConsumed /\ ReturnedCapture = None
               /\ ~caption => win'[w].state = win[w].state
               /\ \A i \in 1..Len(log) :
                     (/\ caption
                      /\ log[i].ev = "toggle" /\ log[i].win = w
                      /\ log[i].arg = Restored)
                     => /\ win'[w].state = Restored
                        /\ Rect(win'[w]) = <<log[i].x, log[i].y,
                                             log[i].width, log[i].height>>]_vars

\* C20: a mouse event given to a desktop at a position outside the
\* desktop's rectangle is offered to no window and to no client, returns not
\* consumed without capture, and changes no window, no desktop and not the
\* focus.
C20_OutsideIsRejected ==
    [][\A d \in Desktops :
          (/\ log'[1].ev \in Actions /\ log'[1].arg = d
           /\ ~InRect(desk[d], log'[1].x, log'[1].y))
          => /\ log' = <<log'[1], Ev("return", None, 0)>>
             /\ win' = win /\ desk' = desk /\ focus' = focus]_vars

\* C20 witness: a mouse move outside the desktop's rectangle has been
\* rejected while a window of the desktop is moving.
C20_Witness ==
    \E d \in Desktops, w \in Windows :
        /\ Called("Move") /\ log[1].arg = d
        /\ ~InRect(desk[d], log[1].x, log[1].y)
        /\ Logged(Ev("return", None, 0))
        /\ IndexOf(desk[d].wins, w) # 0 /\ win[w].moving

\* The windows that the key event of the step reached, the windows whose
\* client it reached, and whether it reached the client of desktop d.
KeyWindows == {log'[i].win : i \in {j \in 2..Len(log') : log'[j].ev = "InputHandler"}}
KeyClients == {log'[i].win : i \in {j \in 2..Len(log') :
                                       log'[j].ev = "client key" /\ log'[j].win # None}}
KeyDeskClient(d) == \E i \in 2..Len(log') : log'[i] = Ev("client key", None, d)

\* C19: a key event given to a desktop reaches its client, and no window,
\* when the client has the focus and an input handler; otherwise it reaches
\* the first window of the stack that has the focus, if there is one, and
\* nothing else; inside that window the client is reached only if the
\* manager's default input handler did not consume the event; and the event
\* changes no window, no desktop and not the focus.
C19_KeyHasOneDestination ==
    [][\A d \in Desktops :
          (log'[1].ev = "Key" /\ log'[1].arg = d) =>
            LET CS == Cur(<<>>)
                wins == desk[d].wins
                focused == {i \in 1..Len(wins) : HasFocus(CS, wins[i])}
                first == CHOOSE i \in focused : \A j \in focused : i <= j
            IN /\ win' = win /\ desk' = desk /\ focus' = focus
               /\ Cardinality({j \in 2..Len(log') : log'[j].ev = "InputHandler"}) <= 1
               /\ IF desk[d].client /\ desk[d].clientFocus /\ log'[1].deskHandler
                  THEN KeyDeskClient(d) /\ KeyWindows = {} /\ KeyClients = {}
                  ELSE /\ ~KeyDeskClient(d)
                       /\ KeyWindows = IF focused = {} THEN {} ELSE {wins[first]}
                       /\ KeyClients \subseteq KeyWindows
               /\ \A w \in KeyWindows :
                     Ev("DefaultInputHandler", w, 1) \in {log'[i] : i \in 1..Len(log')}
                     => w \notin KeyClients]_vars

\* C19 witness: a key event has reached the lower of two windows that have
\* the focus, a window with a client, and a manager other than the default
\* one has consumed it there.
C19_Witness ==
    \E d \in Desktops, i \in 1..NumWindows, j \in 1..NumWindows :
        /\ Called("Key") /\ log[1].arg = d
        /\ i < j /\ j <= Len(desk[d].wins)
        /\ HasFocus(Cur(<<>>), desk[d].wins[i])
        /\ HasFocus(Cur(<<>>), desk[d].wins[j])
        /\ win[desk[d].wins[i]].client
        /\ log = <<log[1], Ev("InputHandler", desk[d].wins[i], 0),
                   Ev("DefaultInputHandler", desk[d].wins[i], 1)>>

\* C21: SetRestoredRect(r) on a window that is not Restored leaves the
\* displayed rectangle and every other field as they are and stores r, with
\* the size of a bordered window raised to 12x2, as the restored rectangle;
\* SetRestoredRect(r) on a Restored window does to the window what SetRect(r)
\* does; and SetState(Restored) on a window of a stack whose restored
\* rectangle was stored by SetRestoredRect displays exactly that rectangle.
C21_SetRestoredRectStores ==
    [][\A w \in Windows :
          /\ (log'[1].ev = "call SetRestoredRect" /\ log'[1].win = w)
             => LET r == log'[1]
                IN /\ RestoredRect(win'[w]) = Raised(win[w].border, r)
                   /\ IF win[w].state # Restored
                      THEN /\ Rect(win'[w]) = Rect(win[w])
                           /\ win'[w] = [win[w] EXCEPT !.rx = win'[w].rx, !.ry = win'[w].ry,
                                                        !.rw = win'[w].rw, !.rh = win'[w].rh,
                                                        !.rlate = TRUE]
                           /\ Len(log') = 1
                      ELSE /\ Rect(win'[w]) = Raised(win[w].border, r)
                           /\ win'[w] = SetRect(Cur(r), w, r.x, r.y, r.width, r.height).win[w]
          /\ (/\ log'[1] = Ev("call SetState", w, Restored)
              /\ InStack(Cur(<<>>), w)
              /\ win[w].state # Restored
              /\ win[w].rlate)
             => /\ Rect(win'[w]) = RestoredRect(win[w])
                /\ RestoredRect(win'[w]) = RestoredRect(win[w])]_vars

\* The size an edge resize asks for when the pointer is at (qx, qy): the
\* width follows the pointer when bit 0 of the mask is set, the height when
\* bit 1 is set.
ResizeTo(wr, qx, qy) ==
    [x |-> wr.x, y |-> wr.y,
     width |-> IF Bit(wr.resizing, 1) THEN qx - wr.x + 1 ELSE wr.width,
     height |-> IF Bit(wr.resizing, 2) THEN qy - wr.y + 1 ELSE wr.height]

\* The press of the step lies on the right edge column, on the bottom edge
\* row, and on the caption row of the bordered window wr.
OnRightEdge(wr) == log'[1].x = wr.x + wr.width - 1
OnBottomEdge(wr) == log'[1].y = wr.y + wr.height - 1
OnCaption(wr) ==
    wr.border /\ InRect(wr, log'[1].x, log'[1].y) /\ log'[1].y = wr.y

\* C22, as stated: a press inside a resizable window that does not start a
\* move sets bit 0 of the resize mask iff the pointer is on the right edge
\* column and bit 1 iff it is on the bottom edge row, and the manager
\* consumes it (with the window as capture) iff a bit was set; a mouse move
\* while the mask is not empty sets the width to qx-x+1 when bit 0 is set
\* and the height to qy-y+1 when bit 1 is set, keeps the other dimension and
\* the position; and a press on the caption row of a bordered window starts
\* a move and never a resize.
C22_EdgeResize ==
    [][\A d \in Desktops, w \in Windows :
          OfferedFirst(d, w) =>
            LET e == log'[1]
                wr == win[w]
            IN /\ (/\ e.ev = "LeftDown" /\ InRect(wr, e.x, e.y)
                   /\ wr.resizable /\ ~win'[w].moving)
                  => /\ Bit(win'[w].resizing, 1) <=> OnRightEdge(wr)
                     /\ Bit(win'[w].resizing, 2) <=> OnBottomEdge(wr)
                     /\ (ReturnedConsumed /\ ReturnedCapture = w)
                           <=> (OnRightEdge(wr) \/ OnBottomEdge(wr))
               /\ (e.ev = "Move" /\ wr.resizing # 0)
                  => Rect(win'[w]) = AsRect(ResizeTo(wr, e.x, e.y))
               /\ (e.ev = "LeftDown" /\ OnCaption(wr))
                  => win'[w].moving /\ win'[w].resizing = wr.resizing]_vars

\* C22, amended: a press inside a resizable window that leaves the window
\* not moving adds bit 0 to the resize mask iff the pointer is on the right
\* edge column and bit 1 iff it is on the bottom edge row, keeps the bits
\* the mask had, and the manager consumes it (with the window as capture)
\* iff the pointer is on one of the two edges; a mouse move while the mask
\* is not empty and the window is not moving sets the width to qx-x+1 when
\* bit 0 is set and the height to qy-y+1 when bit 1 is set, keeps the other
\* dimension and the position, with the size of a bordered window raised
\* to 12x2, and is consumed with the window as capture; and a press on the
\* caption row of a bordered window with the primary button the only one
\* held starts a move and leaves the mask as it is, while with another
\* button held too it starts no move.
C22_EdgeResizeBounded ==
    [][\A d \in Desktops, w \in Windows :
          OfferedFirst(d, w) =>
            LET e == log'[1]
                wr == win[w]
            IN /\ (/\ e.ev = "LeftDown" /\ InRect(wr, e.x, e.y)
                   /\ wr.resizable /\ ~win'[w].moving)
                  => /\ Bit(win'[w].resizing, 1)
                           <=> (Bit(wr.resizing, 1) \/ OnRightEdge(wr))
                     /\ Bit(win'[w].resizing, 2)
                           <=> (Bit(wr.resizing, 2) \/ OnBottomEdge(wr))
                     /\ (ReturnedConsumed /\ ReturnedCapture = w)
                           <=> (OnRightEdge(wr) \/ OnBottomEdge(wr))
               /\ (e.ev = "Move" /\ wr.resizing # 0 /\ ~wr.moving)
                  => /\ Rect(win'[w]) = Raised(wr.border, ResizeTo(wr, e.x, e.y))
                     /\ win'[w].resizing = wr.resizing
                     /\ ReturnedConsumed /\ ReturnedCapture = w
               /\ (e.ev = "LeftDown" /\ OnCaption(wr))
                  => /\ win'[w].moving = e.only1
                     /\ e.only1 => /\ win'[w].resizing = wr.resizing
                                    /\ ReturnedConsumed /\ ReturnedCapture = w]_vars

\* C22 witness: a mouse move to (11,1) has resized an unbordered window by
\* its bottom-right corner, from (0,0,1,1) to (0,0,12,2).
C22_Witness ==
    \E w \in Windows :
        /\ Called("Move") /\ log[1].x = 11 /\ log[1].y = 1
        /\ Logged(Ev("SetRect", w, 0))
        /\ win[w].resizable /\ ~win[w].border /\ ~win[w].moving
        /\ win[w].resizing = 3
        /\ Rect(win[w]) = <<0, 0, 12, 2>>

\* The windows that the mouse event of the step was offered to.
OfferedTo == {log'[i].win : i \in {j \in 2..Len(log') : log'[j].ev = "MouseHandler"}}

\* The window the mouse event of the step was offered to last.
OfferedLast ==
    LET at == {j \in 2..Len(log') : log'[j].ev = "MouseHandler"}
    IN log'[CHOOSE j \in at : \A k \in at : k <= j].win

\* The step asked the focus for window w, and moved w to the front.
FocusAsked(w) == \E i \in 2..Len(log') : log'[i] = Ev("setFocus", w, 0)
MovedToFront(w) ==
    \E i \in 2..Len(log') : log'[i].ev = "moved to front" /\ log'[i].win = w

\* C23: a press offered to a window with auto-activate on, at a position
\* inside the window, is returned consumed by that window, with the window
\* or nothing as capture and with nothing when neither the manager nor the
\* client claims it; after it the window is the top of its desktop's stack,
\* the others in their order, and the focus has been asked for it exactly
\* when it did not hold the focus.  A press offered to a window at a
\* position outside it, or inside a window with auto-activate off, neither
\* moves that window in the stack nor asks the focus for it; and a press
\* changes the stack only by moving to the top one auto-activate window
\* that contains the pointer.
C23_PressActivates ==
    [][\A d \in Desktops :
          (log'[1].ev = "LeftDown" /\ log'[1].arg = d) =>
            LET e == log'[1]
                wins == desk[d].wins
            IN /\ \A w \in OfferedTo :
                     IF InRect(win[w], e.x, e.y) /\ win[w].autoActivate
                     THEN /\ ReturnedConsumed /\ OfferedLast = w
                          /\ ReturnedCapture \in {None, w}
                          /\ (/\ ~win'[w].moving
                              /\ ~(win[w].resizable
                                     /\ (OnRightEdge(win[w]) \/ OnBottomEdge(win[w]))))
                             => ReturnedCapture = None
                          /\ desk'[d].wins = Append(Without(wins, w), w)
                          /\ focus' = IF HasFocus(Cur(<<>>), w) THEN focus ELSE w
                          /\ FocusAsked(w) <=> ~HasFocus(Cur(<<>>), w)
                          /\ \A v \in Windows \ {w} : ~FocusAsked(v) /\ ~MovedToFront(v)
                     ELSE ~FocusAsked(w) /\ ~MovedToFront(w)
               /\ (\A w \in OfferedTo :
                       ~(InRect(win[w], e.x, e.y) /\ win[w].autoActivate))
                  => desk' = desk /\ focus' = focus]_vars

\* C23 witness: a press that misses the top window and lies in the window
\* below it, which has auto-activate on and no border, has brought that
\* window to the top and asked the focus for it, and is returned consumed
\* without capture by the activation alone.
C23_Witness ==
    \E d \in Desktops :
        /\ Called("LeftDown") /\ log[1].arg = d
        /\ desk[d].wins = <<2, 1>>
        /\ ~InRect(win[2], log[1].x, log[1].y)
        /\ ~win[1].border /\ ~win[1].client
        /\ log = <<log[1], Ev("MouseHandler", 2, 0), Ev("MouseHandler", 1, 0),
                   Ev("moved to front", 1, 1), Ev("setFocus", 1, 0),
                   Ev("return", None, 1)>>

\* C24: when Desktop.Draw paints a window of its stack for the first time
\* since the window was added, and the window is Maximized, the window's
\* rectangle is the desktop's inner rectangle.
C24_MaximizedFitsAtFirstPaint ==
    [][\A d \in Desktops, w \in Windows :
          (/\ log'[1] = Ev("call Draw", None, d)
           /\ IndexOf(desk[d].wins, w) # 0
           /\ ~win[w].painted
           /\ win'[w].state = Maximized)
          => Rect(win'[w]) = AsRect(GetInnerRect(desk'[d]))]_vars

\* The places in the log of the step where entry e stands.
PlacesOf(e) == {i \in 2..Len(log') : log'[i] = e}

\* C25: a window has had at most one first-time layout since it was added;
\* a window in the stack of a desktop has had it exactly when the desktop
\* has been drawn, and a window that has been painted has had it.  The
\* layout runs inside AddWindow exactly when AddWindow puts the window in
\* the stack of a desktop that has been drawn, and inside the first Draw of
\* a desktop for every window of the stack, before the window is painted,
\* and in no other call; a desktop that has been drawn stays so; and a
\* later Draw runs no layout and changes no rectangle and no cascade
\* counter.
C25_InitWindowOncePerAttachment ==
    /\ [](\A w \in Windows :
            /\ win[w].inits <= 1
            /\ win[w].painted => win[w].inits = 1
            /\ \A d \in Desktops :
                  IndexOf(desk[d].wins, w) # 0
                  => win[w].inits = IF desk[d].init THEN 1 ELSE 0)
    /\ [][\A d \in Desktops, w \in Windows :
            LET init == PlacesOf(Ev("InitWindow", w, 0))
                draw == PlacesOf(Ev("Draw", w, 0))
            IN /\ desk[d].init => desk'[d].init
               /\ log'[1] = Ev("call AddWindow", w, d)
                  => /\ Cardinality(init) =
                          IF win[w].desktop # d /\ desk[d].init THEN 1 ELSE 0
                     /\ \A v \in Windows \ {w} : PlacesOf(Ev("InitWindow", v, 0)) = {}
               /\ (log'[1] = Ev("call Draw", None, d) /\ IndexOf(desk[d].wins, w) # 0)
                  => /\ desk'[d].init /\ win'[w].painted
                     /\ Cardinality(draw) = 1
                     /\ IF desk[d].init
                        THEN /\ init = {}
                             /\ win'[w] = [win[w] EXCEPT !.painted = TRUE]
                             /\ desk' = desk
                        ELSE /\ Cardinality(init) = 1
                             /\ \A i \in init, j \in draw : i < j
               /\ (log'[1] = Ev("call Draw", None, d) /\ IndexOf(desk[d].wins, w) = 0)
                  => init = {} /\ draw = {}
               /\ log'[1].ev \notin {"call AddWindow", "call Draw"} => init = {}]_vars

\* C25 witness: a later Draw has painted an auto-positioned window that
\* SetRect had moved from the cascade position to (1,0), without a layout.
C25_Witness ==
    \E d \in Desktops, w \in Windows :
        /\ log = <<Ev("call Draw", None, d), Ev("Draw", w, 0)>>
        /\ win[w].autoPosition /\ win[w].inits = 1 /\ win[w].painted
        /\ Rect(win[w]) = <<1, 0, 13, 3>>
        /\ desk[d].init

\* C26: after any presses, moves and releases of the pointer, every window,
\* bordered or not, is at least 1 wide and 1 high.
C26_DragKeepsSizePositive ==
    \A w \in Windows : win[w].width >= 1 /\ win[w].height >= 1

\* C27: after a click that a desktop has observed, GetClickCount is at
\* least 1 and is the length of the run of clicks at one position, each
\* within the double-click delay of the one before, that the click ended.
C27_ClickCountIsRunLength ==
    \A d \in Desktops :
        desk[d].run > 0
        => GetClickCount(desk[d]) >= 1 /\ GetClickCount(desk[d]) = desk[d].run

\* The multiple of 20 ms nearest to dur, halves rounded up, and at most 255
\* times 20 ms; in microseconds.
NearestDelay(dur) ==
    LET unit == DelayUnitMs * 1000
        units == (dur + unit \div 2) \div unit
    IN unit * (IF units > MaxDelayUnits THEN MaxDelayUnits ELSE units)

\* C28: after SetDoubleClickDelay(dur) with dur not negative,
\* GetDoubleClickDelay is dur rounded to the nearest multiple of 20 ms,
\* halves rounded up, and at most 5100 ms, whatever delay was stored before.
C28_DelayIsRoundedAndCapped ==
    [][\A d \in Desktops :
          (log'[1].ev = "call SetDoubleClickDelay" /\ log'[1].arg = d)
          => GetDoubleClickDelay(desk'[d]) * 1000 = NearestDelay(log'[1].dur)]_vars

===========================================================================
